---- MODULE Spec2Model ----
(***************************************************************************)
(* Model of src/src/github.ts of magic-mirror: the merge of a mirrored     *)
(* pull request (mergePR, with its failure issue and the write of the      *)
(* blocked PendingPR to the database) and the two read-only lookups        *)
(* (getRequiredChecks, getOwners).                                         *)
(*                                                                         *)
(* An optional value (prID?, githubIssue?, sha) is a sequence of length    *)
(* at most one: << >> is "not set", <<v>> is "set to v".                   *)
(***************************************************************************)
EXTENDS Integers, Sequences, FiniteSets, TLC

VARIABLES
    pendingPR,    \* the PendingPR object handed to mergePR (in memory)
    db,           \* the copy of that PendingPR held by the Database
    prHead,       \* host: the current head commit of the pull request
    prState,      \* host: "open" or "merged"
    nextIssue,    \* host: the number the next created issue gets
    head,         \* the head commit the caller observed at its gate check
    pc,           \* position of the evaluation: idle, gated, catch, persist, returned
    ret,          \* how the last mergePR ended: none, true, false, thrown
    err,          \* the error caught at line 177 (<< >> when none)
    issueID,      \* the number createFailureIssue returned in this invocation
    mergeReq,     \* the parameters of the last pulls.merge request
    calls,        \* the host and database calls of the running operation, in order,
                  \* each with whether it resolved (ok) or rejected
    raced,        \* history: the head moved between the gate check and the merge call
    entry,        \* history: <<pendingPR, db, nextIssue>> when the invocation started
    invocations,  \* number of mergePR invocations so far
    branchResp,   \* input of getRequiredChecks: what repos.getBranch answers
    checksRet,    \* result of getRequiredChecks
    ownersResp,   \* input of getOwners: what repos.getContent answers
    ownersRet,    \* result of getOwners
    upIn,         \* input of updatePR: the answer of pulls.get, assignees, message
    upPc,         \* position of updatePR: start, got, done
    upBody,       \* updatePR: the local body after line 109
    upAssignees,  \* updatePR: the parameter assignees after lines 115-117
    upReq,        \* the parameters of the pulls.update request (<< >> when none)
    upRet,        \* how updatePR ended
    cmRet,        \* how addComment ended
    issueIn,      \* input of createFailureIssue: its arguments
    issueOut      \* createFailureIssue: the issues.create request and the result

mergeVars  == <<pendingPR, db, prHead, prState, nextIssue, head, pc, ret, err,
                issueID, mergeReq, calls, raced, entry, invocations>>
checksVars == <<branchResp, checksRet>>
ownersVars == <<ownersResp, ownersRet>>
sideVars   == <<upIn, upPc, upBody, upAssignees, upReq, upRet, cmRet>>
issueVars  == <<issueIn, issueOut>>
vars       == <<mergeVars, checksVars, ownersVars, sideVars, issueVars>>

----------------------------------------------------------------------------
(* Bounds *)
MaxInvocations == 3     \* mergePR invocations on the record
MaxPush        == 2     \* pushes to the pull request's branch
MaxContexts    == 3     \* length of required_status_checks.contexts
MaxLines       == 3     \* lines of the OWNERS file
MaxIDs         == 2     \* upstream pull requests of one failure issue

None    == << >>
Some(v) == <<v>>

\* The forked repository's sync PR of the modelled record.
ThePR == [prID |-> Some(12), action |-> "Pending", githubIssue |-> None]

----------------------------------------------------------------------------
(* mergePR *)

\* Faulty variant of MergeRequest: the merge is not conditional on a head.
MergeRequest_NoSha(pr, h) ==
    [pull_number |-> pr.prID, merge_method |-> "rebase", sha |-> None]

\* The request of lines 168-174: rebase, conditional on the caller's head.
MergeRequest(pr, h) ==
    [pull_number |-> pr.prID, merge_method |-> "rebase", sha |-> Some(h)]

\* Every way the host can reject a merge.
MergeErrors == {"conflict", "stale", "closed", "denied"}

\* What the host can answer to a merge request: a pull request that is not
\* open cannot be merged, a request whose sha is not the current head is
\* rejected, anything else may be merged or rejected.
HostMerge(req, headNow, state) ==
    IF state # "open" THEN {"closed"}
    ELSE IF req.sha # None /\ req.sha # Some(headNow) THEN {"stale"}
    ELSE {"ok", "conflict", "denied"}

\* Faulty variant of BlockRecord: line 190 is missing.
BlockRecord_NoIssue(pr, id) == [pr EXCEPT !.action = "Blocked"]

\* Lines 190-191: the record is given the issue and blocked.
BlockRecord(pr, id) == [pr EXCEPT !.githubIssue = Some(id), !.action = "Blocked"]

\* The caller's gate check: it reads the pull request's head.
GateCheck ==
    /\ pc = "idle"
    /\ invocations < MaxInvocations
    /\ head' = prHead
    /\ pc' = "gated"
    /\ ret' = "none"
    /\ err' = None
    /\ issueID' = None
    /\ calls' = << >>
    /\ raced' = FALSE
    /\ UNCHANGED <<pendingPR, db, prHead, prState, nextIssue, mergeReq, entry,
                   invocations, checksVars, ownersVars, sideVars, issueVars>>

\* Somebody pushes to the pull request's branch.
Push ==
    /\ prState = "open"
    /\ prHead < MaxPush
    /\ prHead' = prHead + 1
    /\ UNCHANGED <<pendingPR, db, prState, nextIssue, head, pc, ret, err, issueID,
                   mergeReq, calls, raced, entry, invocations, checksVars, ownersVars,
                   sideVars, issueVars>>

\* One entry of the log of calls: the operation called and whether it resolved.
Call(op, ok) == [op |-> op, ok |-> ok]

\* What every outcome of the merge call of lines 168-174 records.
MergeCalled(ok) ==
    /\ pc = "gated"
    /\ mergeReq' = MergeRequest(pendingPR, head)
    /\ calls' = Append(calls, Call("pulls.merge", ok))
    /\ raced' = (head # prHead)
    /\ entry' = <<pendingPR, db, nextIssue>>
    /\ invocations' = invocations + 1

\* Faulty variant of MergeSucceeds: mergePR itself marks the record Merged
\* and stores it.
MergeSucceeds_MarksMerged ==
    /\ MergeCalled(TRUE)
    /\ "ok" \in HostMerge(MergeRequest(pendingPR, head), prHead, prState)
    /\ prState' = "merged"
    /\ pendingPR' = [pendingPR EXCEPT !.action = "Merged"]
    /\ db' = pendingPR'
    /\ ret' = "true"
    /\ pc' = "returned"
    /\ UNCHANGED <<prHead, nextIssue, head, err, issueID,
                   checksVars, ownersVars, sideVars, issueVars>>

\* Lines 168-176: the host merges, mergePR returns true.
MergeSucceeds ==
    /\ MergeCalled(TRUE)
    /\ "ok" \in HostMerge(MergeRequest(pendingPR, head), prHead, prState)
    /\ prState' = "merged"
    /\ ret' = "true"
    /\ pc' = "returned"
    /\ UNCHANGED <<pendingPR, db, prHead, nextIssue, head, err, issueID,
                   checksVars, ownersVars, sideVars, issueVars>>

\* Faulty variant of MergeFails: the rejected merge is sent again.
MergeFails_Retry ==
    /\ MergeCalled(FALSE)
    /\ \E e \in HostMerge(MergeRequest(pendingPR, head), prHead, prState) \ {"ok"} :
           err' = Some(e)
    /\ pc' = "gated"
    /\ UNCHANGED <<pendingPR, db, prHead, prState, nextIssue, head, ret, issueID,
                   checksVars, ownersVars, sideVars, issueVars>>

\* Faulty variant of MergeFails: a permission error is not reported, mergePR
\* returns false at once.
MergeFails_DeniedSilent ==
    /\ MergeCalled(FALSE)
    /\ \E e \in HostMerge(MergeRequest(pendingPR, head), prHead, prState) \ {"ok"} :
           /\ err' = Some(e)
           /\ IF e = "denied"
                 THEN pc' = "returned" /\ ret' = "false"
                 ELSE pc' = "catch" /\ ret' = ret
    /\ UNCHANGED <<pendingPR, db, prHead, prState, nextIssue, head, issueID,
                   checksVars, ownersVars, sideVars, issueVars>>

\* Lines 168-177: the host rejects the merge, the error is caught.
MergeFails ==
    /\ MergeCalled(FALSE)
    /\ \E e \in HostMerge(MergeRequest(pendingPR, head), prHead, prState) \ {"ok"} :
           err' = Some(e)
    /\ pc' = "catch"
    /\ UNCHANGED <<pendingPR, db, prHead, prState, nextIssue, head, ret, issueID,
                   checksVars, ownersVars, sideVars, issueVars>>

\* Lines 178-191: createFailureIssue resolves with the new issue's number
\* (lines 58-59), which is assigned to the record together with Blocked.
IssueCreated ==
    /\ pc = "catch"
    /\ calls' = Append(calls, Call("issues.create", TRUE))
    /\ issueID' = Some(nextIssue)
    /\ nextIssue' = nextIssue + 1
    /\ pendingPR' = BlockRecord(pendingPR, nextIssue)
    /\ pc' = "persist"
    /\ UNCHANGED <<db, prHead, prState, head, ret, err, mergeReq, raced, entry,
                   invocations, checksVars, ownersVars, sideVars, issueVars>>

\* Faulty variant of IssueFails: the rejection is swallowed, mergePR returns
\* false.
IssueFails_Swallowed ==
    /\ pc = "catch"
    /\ calls' = Append(calls, Call("issues.create", FALSE))
    /\ ret' = "false"
    /\ pc' = "returned"
    /\ UNCHANGED <<pendingPR, db, prHead, prState, nextIssue, head, err, issueID,
                   mergeReq, raced, entry, invocations, checksVars, ownersVars,
                   sideVars, issueVars>>

\* Faulty variant of IssueFails: the record is blocked before the issue
\* exists.
IssueFails_BlocksAnyway ==
    /\ pc = "catch"
    /\ calls' = Append(calls, Call("issues.create", FALSE))
    /\ pendingPR' = [pendingPR EXCEPT !.action = "Blocked"]
    /\ ret' = "thrown"
    /\ pc' = "returned"
    /\ UNCHANGED <<db, prHead, prState, nextIssue, head, err, issueID,
                   mergeReq, raced, entry, invocations, checksVars, ownersVars,
                   sideVars, issueVars>>

\* Lines 178-188 and 58: issues.create rejects; nothing catches it, so mergePR
\* rejects before lines 190-192 run.
IssueFails ==
    /\ pc = "catch"
    /\ calls' = Append(calls, Call("issues.create", FALSE))
    /\ ret' = "thrown"
    /\ pc' = "returned"
    /\ UNCHANGED <<pendingPR, db, prHead, prState, nextIssue, head, err, issueID,
                   mergeReq, raced, entry, invocations, checksVars, ownersVars,
                   sideVars, issueVars>>

\* Lines 192-194: the database stores the record, mergePR returns false.
Persisted ==
    /\ pc = "persist"
    /\ calls' = Append(calls, Call("db.setPendingPR", TRUE))
    /\ db' = pendingPR
    /\ ret' = "false"
    /\ pc' = "returned"
    /\ UNCHANGED <<pendingPR, prHead, prState, nextIssue, head, err, issueID,
                   mergeReq, raced, entry, invocations, checksVars, ownersVars,
                   sideVars, issueVars>>

\* Faulty variant of PersistFails: the rejected write is made again.
PersistFails_Retry ==
    /\ pc = "persist"
    /\ calls' = Append(calls, Call("db.setPendingPR", FALSE))
    /\ UNCHANGED <<pendingPR, db, prHead, prState, nextIssue, head, pc, ret, err, issueID,
                   mergeReq, raced, entry, invocations, checksVars, ownersVars,
                   sideVars, issueVars>>

\* Line 192: db.setPendingPR rejects; nothing catches it, so mergePR rejects.
PersistFails ==
    /\ pc = "persist"
    /\ calls' = Append(calls, Call("db.setPendingPR", FALSE))
    /\ ret' = "thrown"
    /\ pc' = "returned"
    /\ UNCHANGED <<pendingPR, db, prHead, prState, nextIssue, head, err, issueID,
                   mergeReq, raced, entry, invocations, checksVars, ownersVars,
                   sideVars, issueVars>>

\* The caller after mergePR ended: on true it transitions the record to
\* Merged and stores it; the evaluation is over either way.
CallerNext ==
    /\ pc = "returned"
    /\ pc' = "idle"
    /\ IF ret = "true"
          THEN /\ pendingPR' = [pendingPR EXCEPT !.action = "Merged"]
               /\ db' = pendingPR'
          ELSE UNCHANGED <<pendingPR, db>>
    /\ UNCHANGED <<prHead, prState, nextIssue, head, ret, err, issueID, mergeReq,
                   calls, raced, entry, invocations, checksVars, ownersVars, sideVars, issueVars>>

\* No call of updatePR, addComment or createFailureIssue is under way.
InitSideVars ==
    /\ upIn = None
    /\ upPc = "start"
    /\ upBody = None
    /\ upAssignees = << >>
    /\ upReq = None
    /\ upRet = None
    /\ cmRet = None

InitIssueVars ==
    /\ issueIn = None
    /\ issueOut = None

InitMergeVars ==
    /\ pendingPR = ThePR
    /\ db = ThePR
    /\ prHead = 0
    /\ prState = "open"
    /\ nextIssue = 1
    /\ head = 0
    /\ pc = "idle"
    /\ ret = "none"
    /\ err = None
    /\ issueID = None
    /\ mergeReq = MergeRequest(ThePR, 0)
    /\ calls = << >>
    /\ raced = FALSE
    /\ entry = <<ThePR, ThePR, 1>>
    /\ invocations = 0

Init ==
    /\ InitMergeVars
    /\ InitSideVars
    /\ InitIssueVars
    /\ branchResp = None
    /\ checksRet = None
    /\ ownersResp = None
    /\ ownersRet = None

Next ==
    \/ GateCheck
    \/ Push
    \/ MergeSucceeds
    \/ MergeFails
    \/ IssueCreated
    \/ IssueFails
    \/ Persisted
    \/ PersistFails
    \/ CallerNext

Spec == Init /\ [][Next]_vars

----------------------------------------------------------------------------
(* getRequiredChecks *)

\* The check names a branch protection can require.
Contexts == {"build", "lint", "test"}

\* All sequences over S of length at most n.
SeqsUpTo(S, n) == UNION {[1..k -> S] : k \in 0..n}

\* What repos.getBranch can answer: it rejects, or it resolves with
\* data.protection, whose required_status_checks is optional.
BranchResponses ==
    {[ok |-> FALSE]} \cup
    {[ok |-> TRUE, protection |-> [enabled |-> en, required_status_checks |-> rsc]] :
        en \in BOOLEAN,
        rsc \in {None} \cup {Some([contexts |-> c]) : c \in SeqsUpTo(Contexts, MaxContexts)}}

\* new Set(iterable): the elements in the order of their first occurrence.
RECURSIVE NewSet(_)
NewSet(xs) ==
    IF xs = << >> THEN << >>
    ELSE LET init == NewSet(SubSeq(xs, 1, Len(xs) - 1))
             last == xs[Len(xs)]
         IN  IF \E i \in DOMAIN init : init[i] = last THEN init ELSE Append(init, last)

\* Faulty variant of RequiredChecks: the contexts are returned as they come.
RequiredChecks_NoDedup(protection) ==
    IF ~protection.enabled \/ protection.required_status_checks = None
        THEN << >>
        ELSE protection.required_status_checks[1].contexts

\* Lines 148-152: the set getRequiredChecks returns for a branch it could read.
RequiredChecks(protection) ==
    IF ~protection.enabled \/ protection.required_status_checks = None
        THEN NewSet(<< >>)
        ELSE NewSet(protection.required_status_checks[1].contexts)

\* Lines 141-153: one call of getRequiredChecks; a rejected getBranch is not
\* caught, so the call rejects.
GetRequiredChecks ==
    /\ branchResp # None
    /\ checksRet = None
    /\ calls' = Append(calls, Call("repos.getBranch", branchResp[1].ok))
    /\ checksRet' = IF branchResp[1].ok
                       THEN Some([kind |-> "set",
                                  value |-> RequiredChecks(branchResp[1].protection)])
                       ELSE Some([kind |-> "rejected"])
    /\ UNCHANGED <<pendingPR, db, prHead, prState, nextIssue, head, pc, ret, err,
                   issueID, mergeReq, raced, entry, invocations, branchResp, ownersVars,
                   sideVars, issueVars>>

InitChecks ==
    /\ InitMergeVars
    /\ InitSideVars
    /\ InitIssueVars
    /\ branchResp \in {Some(r) : r \in BranchResponses}
    /\ checksRet = None
    /\ ownersResp = None
    /\ ownersRet = None

NextChecks == GetRequiredChecks

SpecChecks == InitChecks /\ [][NextChecks]_vars

----------------------------------------------------------------------------
(* getOwners *)

\* The OWNERS file is modelled line by line. The base64 content of the host
\* is a sequence of chunks, one per line of text.
Base64Chunks ==
    {"YXBwcm92ZXJzOgo=", "cmV2aWV3ZXJzOgo=", "LSBhbGljZQo=", "LSBib2IK",
     "YXBwcm92ZXJzOiBub25lCg==", "ewo="}

\* Line 227, Buffer.from(content, "base64").toString("utf-8"), chunk by chunk.
Base64Decode(chunk) ==
    CASE chunk = "YXBwcm92ZXJzOgo="         -> "approvers:"
      [] chunk = "cmV2aWV3ZXJzOgo="         -> "reviewers:"
      [] chunk = "LSBhbGljZQo="             -> "- alice"
      [] chunk = "LSBib2IK"                 -> "- bob"
      [] chunk = "YXBwcm92ZXJzOiBub25lCg==" -> "approvers: none"
      [] chunk = "ewo="                     -> "{"

FromBase64(content) == [i \in DOMAIN content |-> Base64Decode(content[i])]

\* The tokens of a line of YAML text.
YamlLine(line) ==
    CASE line = "approvers:"      -> [t |-> "key", k |-> "approvers"]
      [] line = "reviewers:"      -> [t |-> "key", k |-> "reviewers"]
      [] line = "- alice"         -> [t |-> "item", v |-> "alice"]
      [] line = "- bob"           -> [t |-> "item", v |-> "bob"]
      [] line = "approvers: none" -> [t |-> "scalar", k |-> "approvers", v |-> "none"]
      [] line = "{"               -> [t |-> "open"]

YamlNull     == [kind |-> "null"]
YamlError    == [kind |-> "error"]
YamlStr(v)   == [kind |-> "str", value |-> v]
YamlSeq(xs)  == [kind |-> "seq", items |-> xs]
YamlMap(f)   == [kind |-> "map", entries |-> f]

\* A block mapping read line by line: m is the mapping so far (a function
\* from its keys), cur the key whose block sequence is open (<< >> after a
\* scalar value). A repeated key, an item with no open key and an
\* unterminated flow mapping are errors.
RECURSIVE YamlBlockMapping(_, _, _)
YamlBlockMapping(lines, m, cur) ==
    IF lines = << >> THEN YamlMap(m)
    ELSE LET l    == YamlLine(Head(lines))
             rest == Tail(lines)
         IN  CASE l.t = "key" ->
                      IF l.k \in DOMAIN m THEN YamlError
                      ELSE YamlBlockMapping(rest, (l.k :> YamlNull) @@ m, Some(l.k))
               [] l.t = "scalar" ->
                      IF l.k \in DOMAIN m THEN YamlError
                      ELSE YamlBlockMapping(rest, (l.k :> YamlStr(l.v)) @@ m, None)
               [] l.t = "item" ->
                      IF cur = None THEN YamlError
                      ELSE LET k   == cur[1]
                               old == IF m[k].kind = "seq" THEN m[k].items ELSE << >>
                           IN  YamlBlockMapping(rest,
                                   [m EXCEPT ![k] = YamlSeq(Append(old, l.v))], cur)
               [] l.t = "open" -> YamlError

\* Line 228, yaml.load: an empty document is undefined, a document that
\* starts with an item is a sequence and admits only items, any other is a
\* block mapping; a malformed document throws.
YamlLoad(lines) ==
    IF lines = << >> THEN YamlNull
    ELSE IF YamlLine(lines[1]).t = "item"
        THEN IF \A i \in DOMAIN lines : YamlLine(lines[i]).t = "item"
                THEN YamlSeq([i \in DOMAIN lines |-> YamlLine(lines[i]).v])
                ELSE YamlError
        ELSE YamlBlockMapping(lines, << >>, None)

\* The texts of the OWNERS file, as base64 content.
Contents == SeqsUpTo(Base64Chunks, MaxLines)

\* Why repos.getContent can reject: the branch has no OWNERS file (404), or
\* the file could not be retrieved (network, authentication).
ReadErrors == {"not_found", "network", "auth"}

\* What repos.getContent can answer: it rejects (the file is missing, or the
\* network or the authentication fails), or it resolves. An Octokit response
\* is {status, data}, with the file {type, encoding, content}, a directory
\* listing or an object without content in data; the object whose content
\* line 224 looks for carries content itself.
OwnersResponses ==
    {[ok |-> FALSE, error |-> e] : e \in ReadErrors} \cup
    {[ok |-> TRUE, resp |-> r] :
        r \in {[status |-> 200, data |-> [type |-> "dir"]],
               [status |-> 200, data |-> [type |-> "symlink"]]}
           \cup {[status |-> 200,
                  data |-> [type |-> "file", encoding |-> "base64", content |-> c]] :
                     c \in Contents}
           \cup {[type |-> "file", encoding |-> "base64", content |-> c] :
                     c \in Contents}}

\* Lines 222-232 and 237: the list getOwners returns for the object that
\* getContent resolved with, or the error yaml.load threw.
Owners(obj) ==
    IF "content" \in DOMAIN obj
        THEN LET ownersObj == YamlLoad(FromBase64(obj.content))
             IN  IF ownersObj.kind = "error" THEN [kind |-> "throws"]
                 ELSE IF /\ ownersObj.kind = "map"
                         /\ "approvers" \in DOMAIN ownersObj.entries
                         /\ ownersObj.entries["approvers"].kind = "seq"
                     THEN [kind |-> "list", value |-> ownersObj.entries["approvers"].items]
                     ELSE [kind |-> "list", value |-> << >>]
        ELSE [kind |-> "list", value |-> << >>]

\* Faulty variant of GetOwners: the catch block returns [] instead of
\* rejecting.
GetOwners_EmptyOnError ==
    /\ ownersResp # None
    /\ ownersRet = None
    /\ calls' = Append(calls, Call("repos.getContent", ownersResp[1].ok))
    /\ ownersRet' =
           IF ~ownersResp[1].ok THEN Some([kind |-> "list", value |-> << >>])
           ELSE LET r == Owners(ownersResp[1].resp)
                IN  IF r.kind = "throws" THEN Some([kind |-> "list", value |-> << >>])
                    ELSE Some(r)
    /\ UNCHANGED <<pendingPR, db, prHead, prState, nextIssue, head, pc, ret, err,
                   issueID, mergeReq, raced, entry, invocations, ownersResp, checksVars,
                   sideVars, issueVars>>

\* Lines 207-238: one call of getOwners; whatever the try block throws (the
\* rejected getContent, the error of yaml.load) is turned into a rejection
\* at line 234.
GetOwners ==
    /\ ownersResp # None
    /\ ownersRet = None
    /\ calls' = Append(calls, Call("repos.getContent", ownersResp[1].ok))
    /\ ownersRet' =
           IF ~ownersResp[1].ok THEN Some([kind |-> "rejected"])
           ELSE LET r == Owners(ownersResp[1].resp)
                IN  IF r.kind = "throws" THEN Some([kind |-> "rejected"]) ELSE Some(r)
    /\ UNCHANGED <<pendingPR, db, prHead, prState, nextIssue, head, pc, ret, err,
                   issueID, mergeReq, raced, entry, invocations, ownersResp, checksVars,
                   sideVars, issueVars>>

InitOwners ==
    /\ InitMergeVars
    /\ InitSideVars
    /\ InitIssueVars
    /\ branchResp = None
    /\ checksRet = None
    /\ ownersResp \in {Some(r) : r \in OwnersResponses}
    /\ ownersRet = None

NextOwners == GetOwners

SpecOwners == InitOwners /\ [][NextOwners]_vars

\* Both lookups of one gate evaluation in which a read of the host fails:
\* the branch read with any answer for OWNERS that is a failure, or the
\* OWNERS read with a failed branch read.
InitLookups ==
    /\ InitMergeVars
    /\ InitSideVars
    /\ InitIssueVars
    /\ checksRet = None
    /\ ownersRet = None
    /\ \/ /\ branchResp \in {Some(r) : r \in BranchResponses}
          /\ ownersResp \in {Some(r) : r \in {o \in OwnersResponses : ~o.ok}}
       \/ /\ branchResp \in {Some(r) : r \in {b \in BranchResponses : ~b.ok}}
          /\ ownersResp \in {Some(r) : r \in OwnersResponses}

NextLookups ==
    \/ GetRequiredChecks
    \/ GetOwners

SpecLookups == InitLookups /\ [][NextLookups]_vars

----------------------------------------------------------------------------
(* addComment and updatePR *)

\* A text is a sequence of words; "\n\n" is the separator of line 122.
\* A value of the host that may be null or missing carries its type.
Null       == [t |-> "null"]
Undefined  == [t |-> "undefined"]
String(v)  == [t |-> "string", v |-> v]
Array(v)   == [t |-> "array", v |-> v]

\* x == null (line 110): true of null and of undefined only.
LooseEqualsNull(x) == x.t \in {"null", "undefined"}

\* The bodies and assignees a pull request can have, the assignees and
\* messages a caller can pass.
Bodies        == {Null, Undefined, String(<< >>), String(<<"Sync">>),
                  String(<<"Sync", "upstream">>)}
PRAssignees   == {Null, Undefined, Array(<< >>), Array(<<[login |-> "alice"]>>),
                  Array(<<[login |-> "alice"], [login |-> "carol"]>>)}
CallAssignees == {<< >>, <<"bob">>}
Messages      == {<< >>, <<"Done">>}

\* What pulls.get can answer: it rejects, or it resolves with data.
GetResponses ==
    {[ok |-> FALSE]} \cup
    {[ok |-> TRUE, data |-> [body |-> b, assignees |-> a]] :
        b \in Bodies, a \in PRAssignees}

UpdateInputs ==
    {[get |-> g, assignees |-> a, message |-> m] :
        g \in GetResponses, a \in CallAssignees, m \in Messages}

\* Faulty variant of PickAssignees: the caller's assignees always win.
PickAssignees_Supplied(existing, supplied) == supplied

\* Lines 115-117: the previous assignees' logins if there are any.
PickAssignees(existing, supplied) ==
    IF existing.t = "array" /\ Len(existing.v) > 0
        THEN [i \in DOMAIN existing.v |-> existing.v[i].login]
        ELSE supplied

\* Line 122: body += "\n\n" + message.
AppendMessage(body, message) == body \o <<"\n\n">> \o message

\* Faulty variant of UpdateGetFails: the error of the read is dropped and the
\* update is sent with an empty body.
UpdateGetFails_UpdatesAnyway ==
    /\ upIn # None
    /\ upPc = "start"
    /\ ~upIn[1].get.ok
    /\ calls' = Append(calls, Call("pulls.get", FALSE))
    /\ upBody' = Some(<< >>)
    /\ upAssignees' = upIn[1].assignees
    /\ upPc' = "got"
    /\ UNCHANGED <<pendingPR, db, prHead, prState, nextIssue, head, pc, ret, err,
                   issueID, mergeReq, raced, entry, invocations, checksVars, ownersVars,
                   upIn, upReq, upRet, cmRet, issueVars>>

\* Lines 107 and 118-120: pulls.get rejects, the error is returned.
UpdateGetFails ==
    /\ upIn # None
    /\ upPc = "start"
    /\ ~upIn[1].get.ok
    /\ calls' = Append(calls, Call("pulls.get", FALSE))
    /\ upRet' = Some([kind |-> "error", from |-> "pulls.get"])
    /\ upPc' = "done"
    /\ UNCHANGED <<pendingPR, db, prHead, prState, nextIssue, head, pc, ret, err,
                   issueID, mergeReq, raced, entry, invocations, checksVars, ownersVars,
                   upIn, upBody, upAssignees, upReq, cmRet, issueVars>>

\* Lines 107-112: the pull request has no body, updatePR returns.
UpdateNoBody ==
    /\ upIn # None
    /\ upPc = "start"
    /\ upIn[1].get.ok
    /\ LooseEqualsNull(upIn[1].get.data.body)
    /\ calls' = Append(calls, Call("pulls.get", TRUE))
    /\ upRet' = Some([kind |-> "void"])
    /\ upPc' = "done"
    /\ UNCHANGED <<pendingPR, db, prHead, prState, nextIssue, head, pc, ret, err,
                   issueID, mergeReq, raced, entry, invocations, checksVars, ownersVars,
                   upIn, upBody, upAssignees, upReq, cmRet, issueVars>>

\* Lines 107-117: the pull request has a body; the assignees are chosen.
UpdateGot ==
    /\ upIn # None
    /\ upPc = "start"
    /\ upIn[1].get.ok
    /\ ~LooseEqualsNull(upIn[1].get.data.body)
    /\ calls' = Append(calls, Call("pulls.get", TRUE))
    /\ upBody' = Some(upIn[1].get.data.body.v)
    /\ upAssignees' = PickAssignees(upIn[1].get.data.assignees, upIn[1].assignees)
    /\ upPc' = "got"
    /\ UNCHANGED <<pendingPR, db, prHead, prState, nextIssue, head, pc, ret, err,
                   issueID, mergeReq, raced, entry, invocations, checksVars, ownersVars,
                   upIn, upReq, upRet, cmRet, issueVars>>

\* Lines 122-125: the request of pulls.update.
UpdateRequest == [body |-> AppendMessage(upBody[1], upIn[1].message),
                  assignees |-> upAssignees]

\* Lines 122-127: pulls.update resolves, updatePR returns.
UpdateSent ==
    /\ upPc = "got"
    /\ upReq' = Some(UpdateRequest)
    /\ calls' = Append(calls, Call("pulls.update", TRUE))
    /\ upRet' = Some([kind |-> "void"])
    /\ upPc' = "done"
    /\ UNCHANGED <<pendingPR, db, prHead, prState, nextIssue, head, pc, ret, err,
                   issueID, mergeReq, raced, entry, invocations, checksVars, ownersVars,
                   upIn, upBody, upAssignees, cmRet, issueVars>>

\* Faulty variant of UpdateFails: the rejection of pulls.update is not caught.
UpdateFails_Throws ==
    /\ upPc = "got"
    /\ upReq' = Some(UpdateRequest)
    /\ calls' = Append(calls, Call("pulls.update", FALSE))
    /\ upRet' = Some([kind |-> "thrown", from |-> "pulls.update"])
    /\ upPc' = "done"
    /\ UNCHANGED <<pendingPR, db, prHead, prState, nextIssue, head, pc, ret, err,
                   issueID, mergeReq, raced, entry, invocations, checksVars, ownersVars,
                   upIn, upBody, upAssignees, cmRet, issueVars>>

\* Lines 122-130: pulls.update rejects, the error is returned.
UpdateFails ==
    /\ upPc = "got"
    /\ upReq' = Some(UpdateRequest)
    /\ calls' = Append(calls, Call("pulls.update", FALSE))
    /\ upRet' = Some([kind |-> "error", from |-> "pulls.update"])
    /\ upPc' = "done"
    /\ UNCHANGED <<pendingPR, db, prHead, prState, nextIssue, head, pc, ret, err,
                   issueID, mergeReq, raced, entry, invocations, checksVars, ownersVars,
                   upIn, upBody, upAssignees, cmRet, issueVars>>

\* Lines 78-81: issues.createComment resolves, addComment returns.
AddCommentSent ==
    /\ cmRet = None
    /\ calls' = Append(calls, Call("issues.createComment", TRUE))
    /\ cmRet' = Some([kind |-> "void"])
    /\ UNCHANGED <<pendingPR, db, prHead, prState, nextIssue, head, pc, ret, err,
                   issueID, mergeReq, raced, entry, invocations, checksVars, ownersVars,
                   upIn, upPc, upBody, upAssignees, upReq, upRet, issueVars>>

\* Lines 78-84: issues.createComment rejects, the error is returned.
AddCommentFails ==
    /\ cmRet = None
    /\ calls' = Append(calls, Call("issues.createComment", FALSE))
    /\ cmRet' = Some([kind |-> "error", from |-> "issues.createComment"])
    /\ UNCHANGED <<pendingPR, db, prHead, prState, nextIssue, head, pc, ret, err,
                   issueID, mergeReq, raced, entry, invocations, checksVars, ownersVars,
                   upIn, upPc, upBody, upAssignees, upReq, upRet, issueVars>>

\* One call of updatePR and one of addComment, in any order.
InitSide ==
    /\ InitMergeVars
    /\ InitIssueVars
    /\ branchResp = None
    /\ checksRet = None
    /\ ownersResp = None
    /\ ownersRet = None
    /\ upIn \in {Some(i) : i \in UpdateInputs}
    /\ upPc = "start"
    /\ upBody = None
    /\ upAssignees = << >>
    /\ upReq = None
    /\ upRet = None
    /\ cmRet = None

NextSide ==
    \/ UpdateGetFails
    \/ UpdateNoBody
    \/ UpdateGot
    \/ UpdateSent
    \/ UpdateFails
    \/ AddCommentSent
    \/ AddCommentFails

SpecSide == InitSide /\ [][NextSide]_vars

----------------------------------------------------------------------------
(* createFailureIssue *)

\* A template string is the sequence of its pieces: the literal parts and
\* the interpolated values (a number, a string).
Lit(text) == [lit |-> text]
Num(n)    == [num |-> n]
Str(v)    == [str |-> v]

\* Array.prototype.join: the items (each a sequence of pieces) with the
\* separator between them.
RECURSIVE Join(_, _)
Join(items, sep) ==
    IF items = << >> THEN << >>
    ELSE IF Len(items) = 1 THEN items[1]
    ELSE items[1] \o sep \o Join(Tail(items), sep)

\* The pieces of each number of a list.
Nums(ids) == [i \in DOMAIN ids |-> <<Num(ids[i])>>]
Strs(xs)  == [i \in DOMAIN xs |-> <<Str(xs[i])>>]

\* if (prID) on an optional number: set, and not 0.
TruthyNumber(x) == x # None /\ x[1] # 0

\* if (err) on an optional string: set, and not "".
TruthyString(x) == x # None /\ x[1] # ""

\* if (patchCmd) on an optional array: every array is truthy.
TruthyArray(x) == x # None

\* A fenced block (lines 49 and 53): the text between two lines of three
\* backquotes, for which Fence stands.
Fence == Lit("FENCE")
Fenced(text) == <<Fence, Lit("\n")>> \o text \o <<Lit("\n"), Fence, Lit("\n")>>

\* Line 34 (the emoji of the literals are left out).
IssueTitle(a) ==
    <<Lit("Failed to sync the upstream PRs: #")>> \o Join(Nums(a.upstreamPRIDs), <<Lit(", #")>>)

\* Line 35.
PrPrefix(a) == <<Lit("\n* "), Str(a.upstreamOrg), Lit("/"), Str(a.repo), Lit("#")>>

\* Lines 44-46.
PausedStatement(a) ==
    <<Lit("Syncing is paused for the branch "), Str(a.branch), Lit(" on "), Str(a.org),
      Lit("/"), Str(a.repo),
      Lit(" until the issue is manually resolved and this issue is closed.\n")>>

\* Lines 36-56.
IssueBody(a) ==
    <<Lit("Magic Mirror failed to sync the following upstream pull-requests because "),
      Str(a.reason), Lit(":")>>
    \o PrPrefix(a) \o Join(Nums(a.upstreamPRIDs), PrPrefix(a)) \o <<Lit("\n\n")>>
    \o (IF TruthyNumber(a.prID)
           THEN <<Lit("The pull-request (#"), Num(a.prID[1]),
                  Lit(") can be reviewed for more information.\n\n")>>
           ELSE << >>)
    \o PausedStatement(a)
    \o (IF TruthyString(a.err)
           THEN <<Lit("\nSyncing error:\n")>> \o Fenced(<<Str(a.err[1])>>)
           ELSE << >>)
    \o (IF TruthyArray(a.patchCmd)
           THEN <<Lit("\nCommands to recreate the issue:\n\n")>>
                \o Fenced(Join(Strs(a.patchCmd[1]), <<Lit("\n")>>))
           ELSE << >>)
    \o <<Lit("\n![sad Yoda](https://media.giphy.com/media/3o7qDK5J5Uerg3atJ6/giphy.gif)")>>

\* Line 58: the parameters of issues.create.
IssueRequest(a) ==
    [owner |-> a.org, repo |-> a.repo, title |-> IssueTitle(a), body |-> IssueBody(a),
     assignees |-> a.assignees]

\* The arguments createFailureIssue is called with.
IssueInputs ==
    {[org |-> "fork-org", repo |-> "repo", upstreamOrg |-> "upstream-org",
      branch |-> "main", upstreamPRIDs |-> ids, reason |-> "stale head",
      prID |-> pr, assignees |-> as, patchCmd |-> cmd, err |-> e] :
        ids \in SeqsUpTo({101, 102}, MaxIDs) \ {<< >>},
        pr \in {None, Some(0), Some(12)},
        as \in {None, Some(<<"alice">>)},
        cmd \in {None, Some(<<"git cherry-pick abc", "git push">>)},
        e \in {None, Some(""), Some("HttpError: 409")}}

\* Lines 58-59: issues.create resolves, the issue's number is returned.
FailureIssueCreated ==
    /\ issueIn # None
    /\ issueOut = None
    /\ calls' = Append(calls, Call("issues.create", TRUE))
    /\ issueOut' = Some([req |-> IssueRequest(issueIn[1]), ok |-> TRUE,
                         number |-> Some(nextIssue)])
    /\ nextIssue' = nextIssue + 1
    /\ UNCHANGED <<pendingPR, db, prHead, prState, head, pc, ret, err, issueID,
                   mergeReq, raced, entry, invocations, checksVars, ownersVars,
                   sideVars, issueIn>>

\* Line 58: issues.create rejects, and so does createFailureIssue.
FailureIssueRejected ==
    /\ issueIn # None
    /\ issueOut = None
    /\ calls' = Append(calls, Call("issues.create", FALSE))
    /\ issueOut' = Some([req |-> IssueRequest(issueIn[1]), ok |-> FALSE,
                         number |-> None])
    /\ UNCHANGED <<pendingPR, db, prHead, prState, nextIssue, head, pc, ret, err,
                   issueID, mergeReq, raced, entry, invocations, checksVars, ownersVars,
                   sideVars, issueIn>>

InitIssue ==
    /\ InitMergeVars
    /\ InitSideVars
    /\ branchResp = None
    /\ checksRet = None
    /\ ownersResp = None
    /\ ownersRet = None
    /\ issueIn \in {Some(a) : a \in IssueInputs}
    /\ issueOut = None

NextIssue ==
    \/ FailureIssueCreated
    \/ FailureIssueRejected

SpecIssue == InitIssue /\ [][NextIssue]_vars

----------------------------------------------------------------------------
(* Properties of mergePR *)

\* The calls of the running invocation to operation op.
CallsTo(op) == {i \in DOMAIN calls : calls[i].op = op}

\* The merge call of the last invocation was rejected by the host.
MergeRejected == calls # << >> /\ calls[1] = Call("pulls.merge", FALSE)

\* C1: a PendingPR with action = Blocked has githubIssue set, in memory and
\* in the database, after any invocations of mergePR with any outcome of the
\* merge call, the issue creation and the database write.
C1_BlockedHasIssue ==
    /\ pendingPR.action = "Blocked" => pendingPR.githubIssue # None
    /\ db.action = "Blocked" => db.githubIssue # None

C1_Witness ==
    /\ pc = "returned"
    /\ pendingPR.action = "Blocked"
    /\ db.action = "Blocked"

\* C2 (as stated): when the head moved between the gate check and the merge
\* call, mergePR does not return true and the record becomes Blocked.
C2_Original ==
    (raced /\ pc = "returned") =>
        (ret # "true" /\ pendingPR.action = "Blocked")

\* C2 (amended): every merge request is a rebase conditional on the caller's
\* head; when the head moved between the gate check and the merge call the
\* merge is rejected as stale and mergePR never returns true; the record is
\* Blocked once the failure issue is created, and when the issue creation
\* fails mergePR rejects and the record is as it was.
C2_StaleHeadNeverMerged ==
    /\ calls # << >> =>
           mergeReq = [pull_number |-> pendingPR.prID, merge_method |-> "rebase",
                       sha |-> Some(head)]
    /\ raced =>
           /\ ret # "true"
           /\ prState = "open"
           /\ err = Some("stale")
           /\ issueID # None => pendingPR.action = "Blocked"
           /\ (pc = "returned" /\ issueID = None) =>
                  (ret = "thrown" /\ pendingPR = entry[1])

C2_Witness ==
    /\ raced
    /\ pc = "returned"
    /\ ret = "false"
    /\ entry[1].action = "Pending"
    /\ pendingPR.action = "Blocked"

\* C3 (as stated): for a Pending record whose merge call is rejected, when
\* mergePR finishes the record is Blocked in memory and in the database with
\* githubIssue the number the issue creation returned, and mergePR returns
\* false.
C3_Original ==
    (pc = "returned" /\ entry[1].action = "Pending" /\ MergeRejected) =>
        /\ ret = "false"
        /\ issueID # None
        /\ pendingPR.action = "Blocked" /\ pendingPR.githubIssue = issueID
        /\ db.action = "Blocked" /\ db.githubIssue = issueID

\* C3 (amended): for a Pending record whose merge call is rejected, once the
\* issue creation has returned a number the record in memory is Blocked with
\* githubIssue that number; mergePR returns false exactly when the database
\* write succeeded too, and then the database holds the same record; when the
\* issue creation or the write fails mergePR rejects and the database is as
\* it was.
C3_RejectedMergeBlocks ==
    (entry[1].action = "Pending" /\ MergeRejected) =>
        /\ issueID # None =>
               (pendingPR.action = "Blocked" /\ pendingPR.githubIssue = issueID)
        /\ pc = "returned" =>
               /\ ret \in {"false", "thrown"}
               /\ ret = "false" <=>
                      (Len(calls) = 3 /\ calls[3] = Call("db.setPendingPR", TRUE))
               /\ ret = "false" =>
                      /\ issueID # None
                      /\ db.action = "Blocked" /\ db.githubIssue = issueID
                      /\ db = pendingPR
               /\ ret = "thrown" => db = entry[2]

C3_Witness ==
    /\ pc = "returned"
    /\ entry[1].action = "Pending"
    /\ MergeRejected
    /\ ret = "false"
    /\ issueID # None
    /\ db.githubIssue = issueID

\* C4: an invocation of mergePR sends exactly one merge request; a rejected
\* merge, whatever the error, is not sent again and is followed by one call
\* to create the failure issue.
C4_OneMergeThenEscalate ==
    /\ Cardinality(CallsTo("pulls.merge")) <= 1
    /\ pc \in {"catch", "persist", "returned"} =>
           (Cardinality(CallsTo("pulls.merge")) = 1 /\ calls[1].op = "pulls.merge")
    /\ pc = "catch" => (MergeRejected /\ Len(calls) = 1 /\ err # None)
    /\ (pc \in {"persist", "returned"} /\ MergeRejected) =>
           /\ err \in {Some(e) : e \in MergeErrors}
           /\ Cardinality(CallsTo("issues.create")) = 1
           /\ calls[2].op = "issues.create"

C4_Witness ==
    /\ pc = "returned"
    /\ err = Some("denied")
    /\ Cardinality(CallsTo("pulls.merge")) = 1
    /\ Cardinality(CallsTo("issues.create")) = 1

\* C5 (as stated): action only ever changes Pending -> Merged or
\* Pending -> Blocked; once Merged or Blocked it never changes again.
C5_Original ==
    [][pendingPR'.action # pendingPR.action =>
           (pendingPR.action = "Pending" /\ pendingPR'.action \in {"Merged", "Blocked"})]_vars

\* C6: when the merge call is rejected and the issue creation fails, mergePR
\* rejects (returns neither true nor false), the record is as it was when
\* mergePR was called (a Pending record is still Pending, githubIssue is
\* unchanged) and the database was not written.
C6_ReportFailurePropagates ==
    (pc = "returned" /\ MergeRejected /\ Len(calls) >= 2
        /\ calls[2] = Call("issues.create", FALSE)) =>
        /\ ret = "thrown"
        /\ pendingPR = entry[1]
        /\ entry[1].action = "Pending" => pendingPR.action = "Pending"
        /\ pendingPR.githubIssue = entry[1].githubIssue
        /\ db = entry[2]
        /\ CallsTo("db.setPendingPR") = {}
        /\ issueID = None

C6_Witness ==
    /\ pc = "returned"
    /\ calls = <<Call("pulls.merge", FALSE), Call("issues.create", FALSE)>>
    /\ ret = "thrown"
    /\ pendingPR.action = "Pending"

\* C7 (as stated): after mergePR has finished, if a failure issue was created
\* the database holds the record Blocked with that issue, for every outcome
\* of the database write, and the record in memory equals the database's.
C7_Original ==
    (pc = "returned" /\ issueID # None) =>
        /\ db.action = "Blocked"
        /\ db.githubIssue = issueID
        /\ db = pendingPR

\* C8: mergePR returns true exactly when the merge call succeeded, and false
\* exactly when the merge was rejected, the issue was created and the Blocked
\* record was stored; it never returns normally unless the host merged the
\* pull request or the failure issue exists.
C8_NoSilentFailure ==
    pc = "returned" =>
        /\ ret \in {"true", "false", "thrown"}
        /\ ret = "true" <=> calls = <<Call("pulls.merge", TRUE)>>
        /\ ret = "false" <=>
               calls = <<Call("pulls.merge", FALSE), Call("issues.create", TRUE),
                         Call("db.setPendingPR", TRUE)>>
        /\ ret = "true" => prState = "merged"
        /\ ret = "false" =>
               /\ issueID # None /\ issueID[1] < nextIssue
               /\ db = pendingPR
               /\ db.action = "Blocked" /\ db.githubIssue = issueID

C8_Witness ==
    /\ pc = "returned"
    /\ ret = "false"
    /\ err = Some("denied")
    /\ db.action = "Blocked"

----------------------------------------------------------------------------
(* Properties of the lookups *)

\* The elements of a sequence.
Range(xs) == {xs[i] : i \in DOMAIN xs}

\* C9: getRequiredChecks returns the empty set when the protection is
\* disabled or has no required_status_checks, otherwise exactly the
\* configured context names, each once even when the payload repeats it;
\* its only call is the read of the branch, and nothing is written to the
\* host or to the database.
C9_RequiredChecks ==
    (checksRet # None /\ branchResp[1].ok) =>
        LET p   == branchResp[1].protection
            got == checksRet[1]
        IN  /\ got.kind = "set"
            /\ (~p.enabled \/ p.required_status_checks = None) => got.value = << >>
            /\ (p.enabled /\ p.required_status_checks # None) =>
                   /\ Range(got.value) = Range(p.required_status_checks[1].contexts)
                   /\ Cardinality(Range(got.value)) = Len(got.value)
            /\ calls = <<Call("repos.getBranch", TRUE)>>
            /\ db = ThePR /\ pendingPR = ThePR
            /\ nextIssue = 1 /\ prState = "open" /\ prHead = 0

C9_Witness ==
    /\ checksRet # None
    /\ branchResp[1].ok
    /\ branchResp[1].protection.enabled
    /\ branchResp[1].protection.required_status_checks =
           Some([contexts |-> <<"lint", "build", "lint">>])
    /\ checksRet[1].value = <<"lint", "build">>

\* The file a resolved getContent carries: the data of an Octokit response.
CarriedFile(obj) == IF "data" \in DOMAIN obj THEN obj.data ELSE obj

\* The text of a well-formed OWNERS file with the approvers list logins.
OwnersText(logins) ==
    <<"approvers:">> \o [i \in DOMAIN logins |-> "- " \o logins[i]]

\* C10 (as stated): getOwners returns [] when the content decodes and has no
\* approvers key, and exactly the approvers list, in order, when the host's
\* response carries a well-formed OWNERS file with an approvers list.
C10_Original ==
    (ownersRet # None /\ ownersResp[1].ok
        /\ "content" \in DOMAIN CarriedFile(ownersResp[1].resp)) =>
        LET text == FromBase64(CarriedFile(ownersResp[1].resp).content)
            doc  == YamlLoad(text)
        IN  /\ (doc.kind = "map" /\ "approvers" \notin DOMAIN doc.entries) =>
                   ownersRet[1] = [kind |-> "list", value |-> << >>]
            /\ \A logins \in SeqsUpTo({"alice", "bob"}, MaxLines) :
                   text = OwnersText(logins) =>
                       ownersRet[1] = [kind |-> "list", value |-> logins]

\* C11: when the read of the host fails (the branch for getRequiredChecks,
\* the content for getOwners) the lookup rejects with an error; it yields no
\* default value: getRequiredChecks no empty set, getOwners no [].
C11_ReadFailureRejects ==
    /\ (checksRet # None /\ ~branchResp[1].ok) =>
           (checksRet[1].kind = "rejected" /\ checksRet[1].kind # "set")
    /\ (ownersRet # None /\ ~ownersResp[1].ok) =>
           (ownersRet[1].kind = "rejected" /\ ownersRet[1].kind # "list")

C11_Witness ==
    /\ checksRet # None /\ ~branchResp[1].ok
    /\ ownersRet # None /\ ~ownersResp[1].ok /\ ownersResp[1].error = "network"
    /\ checksRet[1].kind = "rejected"
    /\ ownersRet[1].kind = "rejected"

\* The content of a resolved answer is malformed or of another shape than a
\* mapping with an approvers list: there is none, or it does not parse, or
\* it parses to something without a list under approvers.
NoApproversList(obj) ==
    LET file == CarriedFile(obj)
    IN  \/ "content" \notin DOMAIN file
        \/ LET doc == YamlLoad(FromBase64(file.content))
           IN  ~(/\ doc.kind = "map"
                 /\ "approvers" \in DOMAIN doc.entries
                 /\ doc.entries["approvers"].kind = "seq")

\* C12 (as stated): getOwners returns an empty list, not an error, when the
\* OWNERS file does not exist on the branch or its content is malformed or
\* of any shape other than a mapping with an approvers list, content that
\* fails to parse included; only a retrieval failure (network, auth)
\* produces an error.
C12_Original ==
    ownersRet # None =>
        /\ (~ownersResp[1].ok /\ ownersResp[1].error = "not_found") =>
               ownersRet[1] = [kind |-> "list", value |-> << >>]
        /\ (ownersResp[1].ok /\ NoApproversList(ownersResp[1].resp)) =>
               ownersRet[1] = [kind |-> "list", value |-> << >>]
        /\ ownersRet[1].kind = "rejected" =>
               (~ownersResp[1].ok /\ ownersResp[1].error \in {"network", "auth"})

----------------------------------------------------------------------------
(* Properties of addComment and updatePR *)

\* The pull request that updatePR read.
GotPR == upIn[1].get.data

\* C13 (as stated): updatePR on a pull request whose body is empty or absent
\* returns without error and makes no call to pulls.update.
C13_Original ==
    (upPc = "done" /\ upIn[1].get.ok
        /\ (LooseEqualsNull(GotPR.body) \/ GotPR.body = String(<< >>))) =>
        /\ upRet = Some([kind |-> "void"])
        /\ CallsTo("pulls.update") = {}
        /\ upReq = None

\* C14: when updatePR sends an update, its assignees are the logins of the
\* pull request's assignees if it has any and the caller's otherwise, and its
\* body is the existing body followed by the separator and the message.
C14_UpdateContent ==
    upReq # None =>
        LET sent == upReq[1]
            old  == GotPR.body.v
            msg  == upIn[1].message
        IN  /\ upIn[1].get.ok /\ GotPR.body.t = "string"
            /\ IF GotPR.assignees.t = "array" /\ GotPR.assignees.v # << >>
                  THEN /\ Len(sent.assignees) = Len(GotPR.assignees.v)
                       /\ \A i \in DOMAIN sent.assignees :
                              sent.assignees[i] = GotPR.assignees.v[i].login
                  ELSE sent.assignees = upIn[1].assignees
            /\ Len(sent.body) = Len(old) + 1 + Len(msg)
            /\ SubSeq(sent.body, 1, Len(old)) = old
            /\ sent.body[Len(old) + 1] = "\n\n"
            /\ SubSeq(sent.body, Len(old) + 2, Len(sent.body)) = msg

C14_Witness ==
    /\ upReq # None
    /\ GotPR.assignees = Array(<<[login |-> "alice"]>>)
    /\ upIn[1].assignees = <<"bob">>
    /\ upReq[1].assignees = <<"alice">>
    /\ upReq[1].body = <<"Sync", "\n\n", "Done">>

\* C15: addComment and updatePR never reject: whatever the host calls do,
\* they end by returning, an error value exactly when a host call failed and
\* nothing when every call succeeded.
C15_ErrorsReturned ==
    /\ cmRet # None =>
           /\ cmRet[1].kind \in {"void", "error"}
           /\ cmRet[1].kind = "error" <=>
                  \E i \in CallsTo("issues.createComment") : ~calls[i].ok
    /\ upPc = "done" =>
           /\ upRet # None
           /\ upRet[1].kind \in {"void", "error"}
           /\ upRet[1].kind = "error" <=>
                  \E i \in CallsTo("pulls.get") \cup CallsTo("pulls.update") : ~calls[i].ok

C15_Witness ==
    /\ cmRet = Some([kind |-> "error", from |-> "issues.createComment"])
    /\ upPc = "done"
    /\ upRet = Some([kind |-> "error", from |-> "pulls.update"])

\* C20: updatePR sends at most one update, and only after its read of the
\* pull request succeeded; when the read fails there is no update and the
\* error of the read is what updatePR returns.
C20_UpdateAfterRead ==
    /\ Cardinality(CallsTo("pulls.update")) <= 1
    /\ \A i \in CallsTo("pulls.update") :
           \E j \in CallsTo("pulls.get") : j < i /\ calls[j].ok
    /\ upReq # None => CallsTo("pulls.update") # {}
    /\ (upPc = "done" /\ ~upIn[1].get.ok) =>
           /\ CallsTo("pulls.update") = {}
           /\ upReq = None
           /\ upRet = Some([kind |-> "error", from |-> "pulls.get"])

C20_Witness ==
    /\ upPc = "done"
    /\ ~upIn[1].get.ok
    /\ upRet = Some([kind |-> "error", from |-> "pulls.get"])
    /\ CallsTo("pulls.update") = {}

----------------------------------------------------------------------------
(* Properties of createFailureIssue *)

\* The positions of a text at which the pieces of part start.
Occurrences(text, part) ==
    {i \in 1..(Len(text) - Len(part) + 1) : SubSeq(text, i, i + Len(part) - 1) = part}

\* The literal pieces that end in '#'.
EndsInHash(piece) ==
    piece \in {Lit("Failed to sync the upstream PRs: #"), Lit(", #"), Lit("#"),
               Lit("The pull-request (#")}

\* The positions of a text where '#<n>' stands, for any n.
HashNumbers(text) ==
    {i \in 2..Len(text) : "num" \in DOMAIN text[i] /\ EndsInHash(text[i - 1])}

\* The body refers to the mirrored pull request.
MentionsPR(body) == Occurrences(body, <<Lit("The pull-request (#")>>) # {}

\* The body has the block of the error.
HasErrorBlock(body) == Occurrences(body, <<Lit("\nSyncing error:\n"), Fence>>) # {}

\* C16 (as stated): createFailureIssue creates one issue on the fork
\* repository with the given assignees and returns its number; the title has
\* '#<id>' for every upstream id, in order; the body has the statement that
\* syncing is paused for the branch; the body refers to the mirrored pull
\* request exactly when a prID is given, and has the error verbatim in a
\* fenced block exactly when one is given.
C16_Original ==
    issueOut # None =>
        LET a   == issueIn[1]
            req == issueOut[1].req
        IN  /\ Cardinality(CallsTo("issues.create")) = 1
            /\ req.owner = a.org /\ req.repo = a.repo /\ req.assignees = a.assignees
            /\ issueOut[1].ok => (issueOut[1].number = Some(nextIssue - 1))
            /\ Cardinality(HashNumbers(req.title)) = Len(a.upstreamPRIDs)
            /\ \A k \in DOMAIN a.upstreamPRIDs :
                   \E i \in HashNumbers(req.title) :
                       /\ req.title[i] = Num(a.upstreamPRIDs[k])
                       /\ Cardinality({j \in HashNumbers(req.title) : j < i}) = k - 1
            /\ Occurrences(req.body, PausedStatement(a)) # {}
            /\ a.prID # None <=> MentionsPR(req.body)
            /\ a.prID # None =>
                   \E i \in Occurrences(req.body, <<Lit("The pull-request (#")>>) :
                       req.body[i + 1] = Num(a.prID[1])
            /\ a.err # None <=> HasErrorBlock(req.body)
            /\ a.err # None => Occurrences(req.body, Fenced(<<Str(a.err[1])>>)) # {}

----------------------------------------------------------------------------
(* Further properties of mergePR *)

\* C17: when the merge call succeeds mergePR returns true and changes
\* nothing else: no issue is created, the database is not written, and the
\* record's action and githubIssue are as they were.
C17_SuccessChangesNothing ==
    (pc = "returned" /\ calls # << >> /\ calls[1] = Call("pulls.merge", TRUE)) =>
        /\ ret = "true"
        /\ Len(calls) = 1
        /\ issueID = None
        /\ nextIssue = entry[3]
        /\ pendingPR = entry[1]
        /\ pendingPR.action = entry[1].action
        /\ pendingPR.githubIssue = entry[1].githubIssue
        /\ db = entry[2]

C17_Witness ==
    /\ pc = "returned"
    /\ ret = "true"
    /\ calls = <<Call("pulls.merge", TRUE)>>
    /\ pendingPR.action = "Pending"
    /\ db.action = "Pending"

\* C18 (as stated): once the record has githubIssue set, no invocation of
\* mergePR sends another merge request, creates another issue or changes
\* githubIssue.
C18_Original ==
    [][pendingPR.githubIssue # None =>
           /\ invocations' = invocations
           /\ nextIssue' = nextIssue
           /\ pendingPR'.githubIssue = pendingPR.githubIssue]_vars

\* C19: the calls of one invocation are in order, each after the outcome of
\* the one before: the issue is created only after the merge call was
\* rejected, the database is written only after the issue creation resolved,
\* and an invocation creates at most one issue and writes at most once.
C19_CallsInOrder ==
    /\ calls # << >> => calls[1].op = "pulls.merge"
    /\ \A i \in CallsTo("issues.create") :
           i = 2 /\ calls[1] = Call("pulls.merge", FALSE)
    /\ \A i \in CallsTo("db.setPendingPR") :
           i = 3 /\ calls[2] = Call("issues.create", TRUE)
    /\ Cardinality(CallsTo("pulls.merge")) <= 1
    /\ Cardinality(CallsTo("issues.create")) <= 1
    /\ Cardinality(CallsTo("db.setPendingPR")) <= 1
    /\ Len(calls) <= 3
    /\ calls # << >> =>
           /\ nextIssue - entry[3] \in {0, 1}
           /\ nextIssue - entry[3] = 1 <=>
                  (Len(calls) >= 2 /\ calls[2] = Call("issues.create", TRUE))

C19_Witness ==
    /\ pc = "returned"
    /\ calls = <<Call("pulls.merge", FALSE), Call("issues.create", TRUE),
                 Call("db.setPendingPR", TRUE)>>
    /\ nextIssue = entry[3] + 1

====
